---- MODULE Spec2Model ----
(***************************************************************************)
(* A model of the retrieval pipeline and the token packer of the rag       *)
(* package: the top_k/top_n derivation and hybrid fusion of                *)
(* src/rag/retriever.py, batch_embed and the four search backends, and     *)
(* chunk_simple of src/rag/utils.py.                                       *)
(***************************************************************************)
EXTENDS Integers, Sequences, FiniteSets, TLC

VARIABLES
    \* ---- RetrieverWithReranker.invoke / HybridRetrieverWithReranker.invoke
    variant,            \* "single" | "hybrid": which orchestrator is invoked
    num_results,        \* None, or Some(r) when SearchDocumentation.run makes the call
    arg_k,              \* the caller's top_k: None or Some(x)
    arg_n,              \* the caller's top_n: None or Some(x)
    top_k,              \* the local top_k after the derivation
    top_n,              \* the local top_n after the derivation
    inv_pc,             \* position inside invoke
    inv_error,          \* the exception invoke ended with, "" if none
    searchCalls,        \* the backend search calls made: <<[backend, top_k]>>
    sparse_retrievals,  \* the sparse backend's result list
    dense_retrievals,   \* the dense backend's result list
    retrievals,         \* the candidates handed to the reranker
    rerankInvokes,      \* the calls of reranker.invoke: <<[documents, top_n]>>
    rerankCalls,        \* the calls of the rerank collaborator pc.inference.rerank
    deduped_retrievals, \* hybrid: the concatenation deduplicated by chunk_id
    reranked,           \* the value invoke returns
    \* ---- batch_embed
    docs,               \* the texts to embed
    batch_size,         \* the batch_size parameter
    range_next,         \* the next value range(0, len(docs), batch_size) yields
    i,                  \* the loop variable
    all_embeddings,     \* the rows collected so far
    embedCalls,         \* the calls of pc.inference.embed: <<[start, inputs, outcome]>>
    sleeps,             \* the time.sleep calls, in order
    be_pc,              \* "idle" | "loop" | "returned" | "raised"
    be_error,           \* the exception batch_embed ended with, "" if none
    stacked,            \* the value batch_embed returns
    \* ---- chunk_simple
    sentences,          \* sent_tokenize(content): each sentence as its token list
    chunk_size,         \* the token budget
    chunks,             \* the chunks emitted so far
    current_chunk,      \* the tokens of the running chunk
    current_length,     \* the running chunk's token count
    sent_next,          \* the position of the next sentence the loop takes
    cs_pc,              \* "idle" | "loop" | "returned"
    chunk_sents,        \* history: the sentence positions packed into each chunk
    current_sents,      \* history: the sentence positions in the running chunk
    \* ---- one search backend instance
    engine,             \* "tfidf" | "bm25" | "dense" | "vstore"
    corpus,             \* the chunk texts the instance may be fitted with
    self_index,         \* self._index: None or Some(value)
    self_data,          \* self._data: None or Some(corpus)
    remote_exists,      \* whether the vector store holds the named index
    se_op,              \* the operation in progress or last run: "fit", "load", "search"
    se_pc,              \* position inside the operation, "ready" between operations
    se_outcome,         \* how the last operation ended: "returned" or the exception
    se_result,          \* the list returned by the search that just ended
    se_top_k,           \* the top_k argument of the search that just ended
    storeCalls,         \* the calls made to the vector store, in order
    fit_next,           \* the next value of the range in VectorStoreSearchEngine.fit
    fit_i,              \* the loop variable of VectorStoreSearchEngine.fit
    ops,                \* the number of operations started
    fitted,             \* history: a fit or load has completed on the instance
    search_unfitted,    \* history: the search in progress started with fitted false
    search_base,        \* history: the external calls made before that search
    \* ---- chunk_dataset
    ds,                 \* the documents: <<[content, file_type]>>
    ds_next,            \* the position of the next document the loop takes
    all_chunks,         \* the chunk records collected so far
    chunker_out,        \* what the chunkers returned so far, by document
    cd_pc,              \* "idle" | "loop" | "returned"
    \* ---- chunk_source_code
    tree,               \* the children of tree.root_node, in source order
    hash_order,         \* the iteration order of string sets in this process
    cc_chunk_size,      \* the chunk_size parameter of chunk_source_code
    root_next,          \* the position of the next child process_root takes
    code_chunks,        \* process_root's chunks so far
    chunks_strs,        \* the list chunk_source_code returns
    sc_pc,              \* "idle" | "root" | "returned"
    first_strs,         \* history: None, or Some(list the first run returned)
    \* ---- chunk_pdf
    pdf_content,        \* the content parameter, a string
    pdf_chunk_size,     \* the chunk_size parameter
    splitlines,         \* content.splitlines(), the list the first loop runs over
    line_next,          \* the position of the next line of content.splitlines()
    sections,           \* the sections closed so far, each a string
    current_section,    \* the lines of the open section
    section_next,       \* the position of the next section the second loop takes
    pdf_chunks,         \* chunk_pdf's chunks so far
    pdf_pc,             \* "idle" | "lines" | "sections" | "returned"
    line_log,           \* history: per line taken, <<[line, was_open, started]>>
    chunk_section       \* history: per chunk, the position of its section

invVars == <<variant, num_results, arg_k, arg_n, top_k, top_n, inv_pc, inv_error, searchCalls,
             sparse_retrievals, dense_retrievals, retrievals, deduped_retrievals,
             rerankInvokes, rerankCalls, reranked>>

embedVars == <<docs, batch_size, range_next, i, all_embeddings, embedCalls, sleeps,
               be_pc, be_error, stacked>>

packVars == <<sentences, chunk_size, chunks, current_chunk, current_length, sent_next,
              cs_pc, chunk_sents, current_sents>>

backendVars == <<engine, corpus, self_index, self_data, remote_exists, se_op, se_pc,
                 se_outcome, se_result, se_top_k, storeCalls, fit_next, fit_i, ops, fitted,
                 search_unfitted, search_base>>

datasetVars == <<ds, ds_next, all_chunks, chunker_out, cd_pc>>

codeVars == <<tree, hash_order, cc_chunk_size, root_next, code_chunks, chunks_strs,
              sc_pc, first_strs>>

pdfVars == <<pdf_content, pdf_chunk_size, splitlines, line_next, sections, current_section,
             section_next, pdf_chunks, pdf_pc, line_log, chunk_section>>

vars == <<invVars, embedVars, packVars, backendVars, datasetVars, codeVars, pdfVars>>

\* What the steps of one component leave alone: the other components' state.
notInv == <<embedVars, packVars, backendVars, datasetVars, codeVars, pdfVars>>
notEmbed == <<invVars, packVars, backendVars, datasetVars, codeVars, pdfVars>>
notPack == <<invVars, embedVars, backendVars, datasetVars, codeVars, pdfVars>>
notDataset == <<invVars, embedVars, packVars, backendVars, codeVars, pdfVars>>
notCode == <<invVars, embedVars, packVars, backendVars, datasetVars, pdfVars>>
notPdf == <<invVars, embedVars, packVars, backendVars, datasetVars, codeVars>>
notBackend == <<invVars, packVars, datasetVars, codeVars, pdfVars>>

\* ------------------------------------------------------------------ bounds
MaxArg == 3
MaxChunkId == 2
MaxRes == 2
MaxDocs == 3
MaxText == 2
MaxBatch == 2
MaxSentences == 3
MaxSentTokens == 2
MaxBudget == 3
MaxOps == 2
MaxContent == 2
MaxDs == 2
MaxDocChunks == 2
MaxNest == 1
MaxMethods == 2
MaxPdfLines == 3

\* ------------------------------------------------------- Python helpers
\* An optional argument: None is the empty tuple, a given value x is <<x>>.
None == << >>
Some(x) == <<x>>

\* Python truthiness of an optional int: None and 0 are falsy.
Truthy(o) == o # None /\ o[1] # 0

Min(a, b) == IF a <= b THEN a ELSE b

RECURSIVE SeqsUpTo(_, _)
\* All sequences over S of length at most n.
SeqsUpTo(S, n) ==
    IF n = 0 THEN {<< >>}
    ELSE LET shorter == SeqsUpTo(S, n - 1)
         IN  shorter \cup {Append(s, x) : s \in {t \in shorter : Len(t) = n - 1}, x \in S}

\* ------------------------------------------------ top_k / top_n derivation
\* The derivation with the caller's values kept when both are given and
\* differ.
MutDeriveBreadthKeepsGiven(k, n) ==
    IF Truthy(k) /\ ~Truthy(n)
    THEN [error |-> "", top_k |-> k[1] * 2, top_n |-> k[1]]
    ELSE IF Truthy(n) /\ ~Truthy(k)
    THEN [error |-> "", top_k |-> n[1] * 2, top_n |-> n[1]]
    ELSE IF k = n
    THEN IF k = None
         THEN [error |-> "TypeError", top_k |-> 0, top_n |-> 0]
         ELSE [error |-> "", top_k |-> k[1] * 2, top_n |-> n[1]]
    ELSE IF Truthy(k) /\ Truthy(n)
    THEN [error |-> "", top_k |-> k[1], top_n |-> n[1]]
    ELSE [error |-> "", top_k |-> 10, top_n |-> 5]

\* The derivation with the doubling of the equal case left out.
MutDeriveBreadthEqualNotDoubled(k, n) ==
    IF Truthy(k) /\ ~Truthy(n)
    THEN [error |-> "", top_k |-> k[1] * 2, top_n |-> k[1]]
    ELSE IF Truthy(n) /\ ~Truthy(k)
    THEN [error |-> "", top_k |-> n[1] * 2, top_n |-> n[1]]
    ELSE IF k = n
    THEN IF k = None
         THEN [error |-> "TypeError", top_k |-> 0, top_n |-> 0]
         ELSE [error |-> "", top_k |-> k[1], top_n |-> n[1]]
    ELSE [error |-> "", top_k |-> 10, top_n |-> 5]

\* retriever.py 431-440 and 453-462: the if/elif chain of both invoke methods.
\* The result is the pair of locals, or the TypeError Python raises on None * 2.
DeriveBreadth(k, n) ==
    IF Truthy(k) /\ ~Truthy(n)
    THEN [error |-> "", top_k |-> k[1] * 2, top_n |-> k[1]]
    ELSE IF Truthy(n) /\ ~Truthy(k)
    THEN [error |-> "", top_k |-> n[1] * 2, top_n |-> n[1]]
    ELSE IF k = n
    THEN IF k = None
         THEN [error |-> "TypeError", top_k |-> 0, top_n |-> 0]
         ELSE [error |-> "", top_k |-> k[1] * 2, top_n |-> n[1]]
    ELSE [error |-> "", top_k |-> 10, top_n |-> 5]

\* ------------------------------------------------------------- backends
\* What a backend's search(query, top_k) may return to the orchestrator: at most
\* top_k records (every backend slices or limits to top_k), each carrying its
\* chunk_id, the backend that produced the copy, its rank there, and a score.
ChunkIds == 1 .. MaxChunkId

Doc(c, b, r) == [chunk_id |-> c, backend |-> b, rank |-> r, score |-> "backend"]

SearchResults(b, k) ==
    {[j \in 1 .. Len(ids) |-> Doc(ids[j], b, j)] : ids \in SeqsUpTo(ChunkIds, Min(k, MaxRes))}

\* ----------------------------------------------------------- hybrid fusion
RECURSIVE MutDedupeKeepFirst(_, _)
\* The deduplication with the first occurrence of a chunk_id kept.
MutDedupeKeepFirst(acc, rest) ==
    IF rest = << >> THEN acc
    ELSE LET doc == Head(rest)
             hit == {j \in 1 .. Len(acc) : acc[j].chunk_id = doc.chunk_id}
         IN  IF hit = {}
             THEN MutDedupeKeepFirst(Append(acc, doc), Tail(rest))
             ELSE MutDedupeKeepFirst(acc, Tail(rest))

RECURSIVE DedupeByChunkId(_, _)
\* retriever.py 469-472: a dict keyed by chunk_id filled in list order. A key
\* keeps the position of its first insertion and the value of its last one.
\* acc is the dict as the sequence of its values in key order.
DedupeByChunkId(acc, rest) ==
    IF rest = << >> THEN acc
    ELSE LET doc == Head(rest)
             hit == {j \in 1 .. Len(acc) : acc[j].chunk_id = doc.chunk_id}
         IN  IF hit = {}
             THEN DedupeByChunkId(Append(acc, doc), Tail(rest))
             ELSE DedupeByChunkId([j \in 1 .. Len(acc) |-> IF j \in hit THEN doc ELSE acc[j]],
                                  Tail(rest))

\* --------------------------------------------------------------- reranker
\* The index lists the rerank collaborator may answer with: top_n distinct
\* positions of the documents (fewer when there are fewer documents).
RerankAnswers(n, top) ==
    {s \in SeqsUpTo(1 .. n, Min(n, top)) :
        /\ Len(s) = Min(n, top)
        /\ \A a, b \in 1 .. Len(s) : a # b => s[a] # s[b]}

\* retriever.py 398-403: each answered document with its score replaced.
RerankOutput(documents, answer) ==
    [j \in 1 .. Len(answer) |-> [documents[answer[j]] EXCEPT !.score = "reranker"]]

\* ----------------------------------------------------------- invoke steps
\* A caller's own call of invoke on either orchestrator, with any arguments.
DirectCall ==
    /\ num_results = None
    /\ variant \in {"single", "hybrid"}
    /\ arg_k \in {None} \cup {Some(x) : x \in 0 .. MaxArg}
    /\ arg_n \in {None} \cup {Some(x) : x \in 0 .. MaxArg}

\* tools.py 37, 62: small counts, the count of the instance in the tools list
\* and the field's default.
NumResults == (1 .. MaxArg) \cup {5, 10}

\* tools.py 53-58: SearchDocumentation.run calls its RetrieverWithReranker
\* with top_k = num_results * 2 and top_n = num_results.
ToolRun ==
    /\ num_results \in {Some(r) : r \in NumResults}
    /\ variant = "single"
    /\ arg_k = Some(num_results[1] * 2)
    /\ arg_n = Some(num_results[1])

InvInit ==
    /\ DirectCall \/ ToolRun
    /\ top_k = 0
    /\ top_n = 0
    /\ inv_pc = "derive"
    /\ inv_error = ""
    /\ searchCalls = << >>
    /\ sparse_retrievals = << >>
    /\ dense_retrievals = << >>
    /\ retrievals = << >>
    /\ deduped_retrievals = << >>
    /\ rerankInvokes = << >>
    /\ rerankCalls = << >>
    /\ reranked = << >>

\* retriever.py 431-440, 453-462: the derivation; a TypeError leaves invoke.
Derive ==
    /\ inv_pc = "derive"
    /\ LET d == DeriveBreadth(arg_k, arg_n)
       IN  IF d.error # ""
           THEN /\ inv_pc' = "raised"
                /\ inv_error' = d.error
                /\ UNCHANGED <<top_k, top_n>>
           ELSE /\ inv_pc' = IF variant = "single" THEN "search" ELSE "sparse"
                /\ top_k' = d.top_k
                /\ top_n' = d.top_n
                /\ UNCHANGED inv_error
    /\ UNCHANGED <<variant, num_results, arg_k, arg_n, searchCalls, sparse_retrievals, dense_retrievals,
                   retrievals, deduped_retrievals, rerankInvokes, rerankCalls, reranked>>
    /\ UNCHANGED notInv

\* retriever.py 441: retrievals = await self.search_engine.search(query, top_k)
SingleSearch ==
    /\ inv_pc = "search"
    /\ searchCalls' = Append(searchCalls, [backend |-> "engine", top_k |-> top_k])
    /\ \E r \in SearchResults("engine", top_k) : retrievals' = r
    /\ inv_pc' = "rerank"
    /\ UNCHANGED <<variant, num_results, arg_k, arg_n, top_k, top_n, inv_error, sparse_retrievals,
                   dense_retrievals, deduped_retrievals, rerankInvokes, rerankCalls,
                   reranked>>
    /\ UNCHANGED notInv

\* retriever.py 464-466: the sparse backend's search.
SparseSearch ==
    /\ inv_pc = "sparse"
    /\ searchCalls' = Append(searchCalls, [backend |-> "sparse", top_k |-> top_k])
    /\ \E r \in SearchResults("sparse", top_k) : sparse_retrievals' = r
    /\ inv_pc' = "dense"
    /\ UNCHANGED <<variant, num_results, arg_k, arg_n, top_k, top_n, inv_error, dense_retrievals,
                   retrievals, deduped_retrievals, rerankInvokes, rerankCalls, reranked>>
    /\ UNCHANGED notInv

\* retriever.py 467-472: the dense backend's search, the concatenation and the
\* deduplication by chunk_id.
DenseSearch ==
    /\ inv_pc = "dense"
    /\ searchCalls' = Append(searchCalls, [backend |-> "dense", top_k |-> top_k])
    /\ \E r \in SearchResults("dense", top_k) :
          /\ dense_retrievals' = r
          /\ retrievals' = sparse_retrievals \o r
          /\ deduped_retrievals' = DedupeByChunkId(<< >>, sparse_retrievals \o r)
    /\ inv_pc' = "rerank"
    /\ UNCHANGED <<variant, num_results, arg_k, arg_n, top_k, top_n, inv_error, sparse_retrievals,
                   rerankInvokes, rerankCalls, reranked>>
    /\ UNCHANGED notInv

\* The candidate list invoke hands to the reranker: retrievals (441-442) or
\* deduped_retrievals (472-473).
Candidates == IF variant = "single" THEN retrievals ELSE deduped_retrievals

\* The reranker step with an empty candidate list handed to the collaborator
\* like any other.
MutRerankTakesEmpty ==
    /\ inv_pc = "rerank"
    /\ rerankInvokes' = Append(rerankInvokes, [documents |-> Candidates, top_n |-> top_n])
    /\ rerankCalls' = Append(rerankCalls, [documents |-> Candidates, top_n |-> top_n])
    /\ \E a \in RerankAnswers(Len(Candidates), top_n) :
          reranked' = RerankOutput(Candidates, a)
    /\ inv_pc' = "returned"
    /\ UNCHANGED inv_error
    /\ UNCHANGED <<variant, num_results, arg_k, arg_n, top_k, top_n, searchCalls, sparse_retrievals,
                   dense_retrievals, retrievals, deduped_retrievals>>
    /\ UNCHANGED notInv

\* retriever.py 442-443, 473-474 with Reranker.invoke, 377-403: texts[0] of an
\* empty candidate list raises IndexError before the collaborator is called.
Rerank ==
    /\ inv_pc = "rerank"
    /\ rerankInvokes' = Append(rerankInvokes, [documents |-> Candidates, top_n |-> top_n])
    /\ IF Candidates = << >>
       THEN /\ inv_pc' = "raised"
            /\ inv_error' = "IndexError"
            /\ UNCHANGED <<rerankCalls, reranked>>
       ELSE /\ rerankCalls' = Append(rerankCalls, [documents |-> Candidates, top_n |-> top_n])
            /\ \E a \in RerankAnswers(Len(Candidates), top_n) :
                  reranked' = RerankOutput(Candidates, a)
            /\ inv_pc' = "returned"
            /\ UNCHANGED inv_error
    /\ UNCHANGED <<variant, num_results, arg_k, arg_n, top_k, top_n, searchCalls, sparse_retrievals,
                   dense_retrievals, retrievals, deduped_retrievals>>
    /\ UNCHANGED notInv

\* ------------------------------------------------------------ batch_embed
\* The embedding the provider computes for a text; the provider answers a
\* batch with one vector per input, in input order.
Emb(t) == [of |-> t]

EmbedBatch(batch) == [j \in 1 .. Len(batch) |-> Emb(batch[j])]

\* retriever.py 164: docs[i : i + batch_size], i counted from 0.
Slice(d, start, size) == SubSeq(d, start + 1, Min(start + size, Len(d)))

\* What pc.inference.embed may raise.
Exceptions == {"rate limit exceeded", "upstream failure"}

\* The test of the handler with every exception taken for a rate limit.
MutIsRateLimitAlways(e) == TRUE

\* retriever.py 186: "rate limit exceeded" in str(e).lower()
IsRateLimit(e) == e = "rate limit exceeded"

EmbedIdle ==
    /\ docs = << >>
    /\ batch_size = 25
    /\ range_next = 0
    /\ i = 0
    /\ all_embeddings = << >>
    /\ embedCalls = << >>
    /\ sleeps = << >>
    /\ be_pc = "idle"
    /\ be_error = ""
    /\ stacked = << >>

\* retriever.py 158-162: a call batch_embed(pc, d, batch_size = b) up to the loop.
EmbedEntry(d, b) ==
    /\ docs' = d
    /\ batch_size' = b
    /\ range_next' = 0
    /\ i' = 0
    /\ all_embeddings' = << >>
    /\ be_pc' = "loop"
    /\ be_error' = ""
    /\ stacked' = << >>

\* retriever.py 162-183: one iteration whose embed call succeeds. The for
\* statement takes the next value of the range and binds i to it.
EmbedOk ==
    /\ be_pc = "loop"
    /\ range_next < Len(docs)
    /\ LET batch == Slice(docs, range_next, batch_size)
       IN  /\ embedCalls' = Append(embedCalls,
                                   [start |-> range_next, inputs |-> batch, outcome |-> "ok"])
           /\ all_embeddings' = all_embeddings \o EmbedBatch(batch)
    /\ i' = range_next
    /\ range_next' = range_next + batch_size
    /\ sleeps' = Append(sleeps, "delay 0.5")
    /\ UNCHANGED <<docs, batch_size, be_pc, be_error, stacked>>
    /\ UNCHANGED notEmbed

\* The iteration with a rate-limited batch taken again by the next iteration,
\* once.
MutEmbedRaisesRetriesOnce ==
    /\ be_pc = "loop"
    /\ range_next < Len(docs)
    /\ \E e \in Exceptions :
          /\ embedCalls' = Append(embedCalls,
                                  [start |-> range_next,
                                   inputs |-> Slice(docs, range_next, batch_size),
                                   outcome |-> e])
          /\ IF IsRateLimit(e)
             THEN /\ sleeps' = Append(sleeps, "cooldown 60")
                  /\ i' = range_next - batch_size
                  /\ range_next' =
                        IF embedCalls # << >> /\ IsRateLimit(embedCalls[Len(embedCalls)].outcome)
                        THEN range_next + batch_size
                        ELSE range_next
                  /\ UNCHANGED <<be_pc, be_error>>
             ELSE /\ be_pc' = "raised"
                  /\ be_error' = e
                  /\ i' = range_next
                  /\ UNCHANGED <<sleeps, range_next>>
    /\ UNCHANGED <<docs, batch_size, all_embeddings, stacked>>
    /\ UNCHANGED notEmbed

\* retriever.py 162-171, 185-193: one iteration whose embed call raises e. On a
\* rate limit the handler sleeps, assigns i - batch_size to i and continues: the
\* for statement then binds i to the range's next value whatever i holds.
EmbedRaises ==
    /\ be_pc = "loop"
    /\ range_next < Len(docs)
    /\ \E e \in Exceptions :
          /\ embedCalls' = Append(embedCalls,
                                  [start |-> range_next,
                                   inputs |-> Slice(docs, range_next, batch_size),
                                   outcome |-> e])
          /\ IF IsRateLimit(e)
             THEN /\ sleeps' = Append(sleeps, "cooldown 60")
                  /\ i' = range_next - batch_size
                  /\ range_next' = range_next + batch_size
                  /\ UNCHANGED <<be_pc, be_error>>
             ELSE /\ be_pc' = "raised"
                  /\ be_error' = e
                  /\ i' = range_next
                  /\ UNCHANGED <<sleeps, range_next>>
    /\ UNCHANGED <<docs, batch_size, all_embeddings, stacked>>
    /\ UNCHANGED notEmbed

\* retriever.py 195-197: the range is exhausted; np.stack of an empty list
\* raises ValueError.
EmbedFinish ==
    /\ be_pc = "loop"
    /\ range_next >= Len(docs)
    /\ IF all_embeddings = << >>
       THEN /\ be_pc' = "raised"
            /\ be_error' = "ValueError"
            /\ UNCHANGED stacked
       ELSE /\ be_pc' = "returned"
            /\ stacked' = all_embeddings
            /\ UNCHANGED be_error
    /\ UNCHANGED <<docs, batch_size, range_next, i, all_embeddings, embedCalls, sleeps>>
    /\ UNCHANGED notEmbed

\* ------------------------------------------------------------ chunk_simple
\* A token is the string decode gives for one token id; a string is the
\* sequence of its characters.
Tokens == {<<"a">>, <<"b", "c">>}

\* A sentence, as tokenize_text returns it: a non-empty list of tokens.
SentenceSet == SeqsUpTo(Tokens, MaxSentTokens) \ {<< >>}

RECURSIVE Join(_)
\* "".join(strings)
Join(strings) == IF strings = << >> THEN << >> ELSE Head(strings) \o Join(Tail(strings))

PackIdle ==
    /\ sentences = << >>
    /\ chunk_size = 300
    /\ chunks = << >>
    /\ current_chunk = << >>
    /\ current_length = 0
    /\ sent_next = 1
    /\ cs_pc = "idle"
    /\ chunk_sents = << >>
    /\ current_sents = << >>

\* The iteration with the flush one token late: the running chunk is closed
\* only when the sentence overshoots the budget by more than one token.
MutPackSentenceLateFlush ==
    /\ cs_pc = "loop"
    /\ sent_next <= Len(sentences)
    /\ LET words == sentences[sent_next]
       IN  IF current_length + Len(words) > chunk_size + 1 /\ current_chunk # << >>
           THEN /\ chunks' = Append(chunks, Join(current_chunk))
                /\ chunk_sents' = Append(chunk_sents, current_sents)
                /\ current_chunk' = words
                /\ current_sents' = <<sent_next>>
                /\ current_length' = Len(words)
           ELSE /\ current_chunk' = current_chunk \o words
                /\ current_sents' = Append(current_sents, sent_next)
                /\ current_length' = current_length + Len(words)
                /\ UNCHANGED <<chunks, chunk_sents>>
    /\ sent_next' = sent_next + 1
    /\ UNCHANGED <<sentences, chunk_size, cs_pc>>
    /\ UNCHANGED notPack

\* utils.py 107-119: one iteration of the loop over the sentences.
PackSentence ==
    /\ cs_pc = "loop"
    /\ sent_next <= Len(sentences)
    /\ LET words == sentences[sent_next]
       IN  IF current_length + Len(words) > chunk_size /\ current_chunk # << >>
           THEN /\ chunks' = Append(chunks, Join(current_chunk))
                /\ chunk_sents' = Append(chunk_sents, current_sents)
                /\ current_chunk' = words
                /\ current_sents' = <<sent_next>>
                /\ current_length' = Len(words)
           ELSE /\ current_chunk' = current_chunk \o words
                /\ current_sents' = Append(current_sents, sent_next)
                /\ current_length' = current_length + Len(words)
                /\ UNCHANGED <<chunks, chunk_sents>>
    /\ sent_next' = sent_next + 1
    /\ UNCHANGED <<sentences, chunk_size, cs_pc>>
    /\ UNCHANGED notPack

\* The return with the running chunk forgotten.
MutPackFinishDropsLast ==
    /\ cs_pc = "loop"
    /\ sent_next > Len(sentences)
    /\ cs_pc' = "returned"
    /\ UNCHANGED <<sentences, chunk_size, chunks, current_chunk, current_length, sent_next,
                   chunk_sents, current_sents>>
    /\ UNCHANGED notPack

\* utils.py 121-125: the last chunk, if any, and the return.
PackFinish ==
    /\ cs_pc = "loop"
    /\ sent_next > Len(sentences)
    /\ chunks' = IF current_chunk # << >> THEN Append(chunks, Join(current_chunk)) ELSE chunks
    /\ chunk_sents' = IF current_chunk # << >> THEN Append(chunk_sents, current_sents)
                      ELSE chunk_sents
    /\ cs_pc' = "returned"
    /\ UNCHANGED <<sentences, chunk_size, current_chunk, current_length, sent_next,
                   current_sents>>
    /\ UNCHANGED notPack

\* ------------------------------------------------------- search backends
\* retriever.py 158: the default batch_size of batch_embed.
DefaultBatchSize == 25

\* retriever.py 325: the batch size of VectorStoreSearchEngine.fit.
FitBatchSize == 50

Texts == 1 .. MaxText

\* Distances and raw scores are counted in half ten-thousandths, the grain at
\* which round(x, 4) has ties. One is the 1 of "1 - cosine_distances[idx]"
\* (retriever.py 86, 264).
One == 20000

\* round(x, 4) of retriever.py 86, 151, 264, 361: x in half ten-thousandths to
\* ten-thousandths, a tie going to the even neighbour.
Round4(x) ==
    LET q == x \div 2
    IN  IF x % 2 = 0 \/ q % 2 = 0 THEN q ELSE q + 1

MutArgsortDescending(dist) ==
    {p \in Permutations(1 .. Len(dist)) :
        \A a, b \in 1 .. Len(dist) : a < b => dist[p[a]] >= dist[p[b]]}

\* numpy argsort (retriever.py 80, 259): the positions by ascending distance.
\* The default sort is not stable: equal distances come in either order.
argsort(dist) ==
    {p \in Permutations(1 .. Len(dist)) :
        \A a, b \in 1 .. Len(dist) : a < b => dist[p[a]] <= dist[p[b]]}

\* The queries of a search: the texts and one point on either side.
Queries == 0 .. MaxText + 1

\* retriever.py 77-79, 256-258: cdist(query, index, metric="cosine")[0], one
\* distance per indexed chunk, a function of the query and the chunk's text.
\* Texts are points on a line and the distance is the gap between them, in
\* half ten-thousandths: equal texts are at distance 0.
cosine_distances(query, data) ==
    [j \in 1 .. Len(data) |->
        IF query >= data[j] THEN query - data[j] ELSE data[j] - query]

\* retriever.py 80, 259: cosine_distances.argsort()[:top_k], each index with
\* the raw score 1 - cosine_distances[idx] of lines 86 and 264.
top_k_indices(dist, k) ==
    {[j \in 1 .. Min(k, Len(dist)) |-> [pos |-> p[j], score |-> One - dist[p[j]]]] :
        p \in argsort(dist)}

\* What bm25s retrieve (retriever.py 145-147) or the vector store's query
\* (350-355) answers with k: the k best of the records it holds (all of them
\* when there are fewer), by descending raw score, equal scores in either
\* order. A record's raw score is `best` less its distance from the query.
Matches(query, data, k, best) ==
    LET score == [j \in 1 .. Len(data) |-> best - cosine_distances(query, data)[j]]
    IN  {[j \in 1 .. Min(k, Len(data)) |-> [pos |-> p[j], score |-> score[p[j]]]] :
            p \in {r \in Permutations(1 .. Len(data)) :
                      \A a, b \in 1 .. Len(data) : a < b => score[r[a]] >= score[r[b]]}}

\* retriever.py 84-87, 149-154, 262-270: the output list, one dictionary per
\* ranked record: the rounded score and the record's fields.
Output(data, ranked) ==
    [j \in 1 .. Len(ranked) |->
        [score |-> Round4(ranked[j].score),
         text |-> data[ranked[j].pos],
         pos |-> ranked[j].pos]]

BackendIdle ==
    /\ engine = "tfidf"
    /\ corpus = << >>
    /\ self_index = None
    /\ self_data = None
    /\ remote_exists = FALSE
    /\ se_op = ""
    /\ se_pc = "idle"
    /\ se_outcome = ""
    /\ se_result = << >>
    /\ se_top_k = 0
    /\ storeCalls = << >>
    /\ fit_next = 0
    /\ fit_i = 0
    /\ ops = 0
    /\ fitted = FALSE
    /\ search_unfitted = FALSE
    /\ search_base = <<0, 0>>

\* retriever.py 36-39, 102-105, 210-214, 296-308: the constructors. Only the
\* BM25 engine holds an index object from construction on. The texts of a
\* corpus are numbered in the order of their first appearance.
BackendConstructed ==
    /\ engine \in {"tfidf", "bm25", "dense", "vstore"}
    /\ corpus \in {c \in SeqsUpTo(Texts, MaxDocs) \ {<< >>} :
                     \A j \in 1 .. Len(c) : c[j] = 1 \/ \E h \in 1 .. j - 1 : c[h] = c[j] - 1}
    /\ self_index = IF engine = "bm25" THEN Some("BM25()") ELSE None
    /\ self_data = None
    /\ remote_exists \in BOOLEAN
    /\ se_op = ""
    /\ se_pc = "ready"
    /\ se_outcome = ""
    /\ se_result = << >>
    /\ se_top_k = 0
    /\ storeCalls = << >>
    /\ fit_next = 0
    /\ fit_i = 0
    /\ ops = 0
    /\ fitted = FALSE
    /\ search_unfitted = FALSE
    /\ search_base = <<0, 0>>

\* An operation begins: the bookkeeping every entry shares.
Begin(op) ==
    /\ se_pc = "ready"
    /\ ops < MaxOps
    /\ ops' = ops + 1
    /\ se_op' = op
    /\ search_unfitted' = (op = "search" /\ ~fitted)
    /\ search_base' = <<Len(embedCalls), Len(storeCalls)>>

\* retriever.py 41-56 and 107-125: TfidfSearchEngine.fit, BM25SearchEngine.fit.
FitLexical ==
    /\ engine \in {"tfidf", "bm25"}
    /\ Begin("fit")
    /\ se_result' = << >>
    /\ se_top_k' = 0
    /\ self_data' = Some(corpus)
    /\ self_index' = Some(IF engine = "tfidf" THEN "tfidf matrix" ELSE "bm25 index")
    /\ se_pc' = "ready"
    /\ se_outcome' = "returned"
    /\ fitted' = TRUE
    /\ UNCHANGED <<engine, corpus, remote_exists, storeCalls, fit_next, fit_i>>
    /\ UNCHANGED embedVars
    /\ UNCHANGED notBackend

\* retriever.py 216-230: DenseSearchEngine.fit up to its batch_embed call.
FitDense ==
    /\ engine = "dense"
    /\ Begin("fit")
    /\ se_result' = << >>
    /\ se_top_k' = 0
    /\ self_data' = Some(corpus)
    /\ EmbedEntry(corpus, DefaultBatchSize)
    /\ se_pc' = "fit_embed"
    /\ UNCHANGED <<engine, corpus, self_index, remote_exists, se_outcome,
                   storeCalls, fit_next, fit_i, fitted>>
    /\ UNCHANGED <<embedCalls, sleeps>>
    /\ UNCHANGED notBackend

\* retriever.py 231-233: DenseSearchEngine.fit after batch_embed returned.
FitDenseDone ==
    /\ se_pc = "fit_embed"
    /\ be_pc = "returned"
    /\ self_index' = Some(stacked)
    /\ se_pc' = "ready"
    /\ se_outcome' = "returned"
    /\ fitted' = TRUE
    /\ UNCHANGED <<se_top_k, engine, corpus, self_data, remote_exists, se_op, se_result, storeCalls,
                   fit_next, fit_i, ops, search_unfitted, search_base>>
    /\ UNCHANGED embedVars
    /\ UNCHANGED notBackend

\* retriever.py 310-325: VectorStoreSearchEngine.fit up to its loop.
FitStore ==
    /\ engine = "vstore"
    /\ Begin("fit")
    /\ se_result' = << >>
    /\ se_top_k' = 0
    /\ storeCalls' = storeCalls \o
           (IF remote_exists THEN <<[call |-> "list_indexes"]>>
            ELSE <<[call |-> "list_indexes"], [call |-> "create_index"]>>)
    /\ remote_exists' = TRUE
    /\ self_index' = Some("Index handle")
    /\ fit_next' = 0
    /\ se_pc' = "fit_loop"
    /\ UNCHANGED <<engine, corpus, self_data, se_outcome, fit_i, fitted>>
    /\ UNCHANGED embedVars
    /\ UNCHANGED notBackend

\* retriever.py 326-329: the loop takes its next batch and calls batch_embed.
FitStoreBatch ==
    /\ se_pc = "fit_loop"
    /\ fit_next < Len(corpus)
    /\ fit_i' = fit_next
    /\ fit_next' = fit_next + FitBatchSize
    /\ EmbedEntry(Slice(corpus, fit_next, FitBatchSize), DefaultBatchSize)
    /\ se_pc' = "fit_batch_embed"
    /\ UNCHANGED <<se_top_k, engine, corpus, self_index, self_data, remote_exists, se_op, se_outcome,
                   se_result, storeCalls, ops, fitted, search_unfitted, search_base>>
    /\ UNCHANGED <<embedCalls, sleeps>>
    /\ UNCHANGED notBackend

\* retriever.py 331-335: zip pairs the returned rows with the batch, position
\* by position, up to the shorter of the two; the pairs are upserted.
FitStoreUpsert ==
    /\ se_pc = "fit_batch_embed"
    /\ be_pc = "returned"
    /\ LET batch == Slice(corpus, fit_i, FitBatchSize)
           vectors == [j \in 1 .. Min(Len(stacked), Len(batch)) |->
                          [id |-> fit_i + j - 1, vector |-> stacked[j], text |-> batch[j]]]
       IN  storeCalls' = Append(storeCalls, [call |-> "upsert", vectors |-> vectors])
    /\ se_pc' = "fit_loop"
    /\ UNCHANGED <<se_top_k, engine, corpus, self_index, self_data, remote_exists, se_op, se_outcome,
                   se_result, fit_next, fit_i, ops, fitted, search_unfitted, search_base>>
    /\ UNCHANGED embedVars
    /\ UNCHANGED notBackend

\* retriever.py 326, 337: the range is exhausted and fit returns.
FitStoreDone ==
    /\ se_pc = "fit_loop"
    /\ fit_next >= Len(corpus)
    /\ se_pc' = "ready"
    /\ se_outcome' = "returned"
    /\ fitted' = TRUE
    /\ UNCHANGED <<se_top_k, engine, corpus, self_index, self_data, remote_exists, se_op, se_result,
                   storeCalls, fit_next, fit_i, ops, search_unfitted, search_base>>
    /\ UNCHANGED embedVars
    /\ UNCHANGED notBackend

\* retriever.py 339-341: VectorStoreSearchEngine.load.
Load ==
    /\ engine = "vstore"
    /\ Begin("load")
    /\ se_result' = << >>
    /\ se_top_k' = 0
    /\ self_index' = Some("Index handle")
    /\ se_pc' = "ready"
    /\ se_outcome' = "returned"
    /\ fitted' = TRUE
    /\ UNCHANGED <<engine, corpus, self_data, remote_exists, storeCalls,
                   fit_next, fit_i>>
    /\ UNCHANGED embedVars
    /\ UNCHANGED notBackend

\* retriever.py 58-89 and 127-155: the asserts, then the ranking.
SearchLexical ==
    /\ engine \in {"tfidf", "bm25"}
    /\ Begin("search")
    /\ \E query \in Queries, k \in 1 .. MaxRes :
          /\ se_top_k' = k
          /\ IF self_index = None \/ self_data = None
             THEN /\ se_outcome' = "AssertionError"
                  /\ se_result' = << >>
             ELSE /\ se_outcome' = "returned"
                  /\ \E ranked \in
                         IF engine = "tfidf"
                         THEN top_k_indices(cosine_distances(query, self_data[1]), k)
                         ELSE Matches(query, self_data[1], k, MaxText + 1) :
                        se_result' = Output(self_data[1], ranked)
    /\ se_pc' = "ready"
    /\ UNCHANGED <<engine, corpus, self_index, self_data, remote_exists, storeCalls,
                   fit_next, fit_i, fitted>>
    /\ UNCHANGED embedVars
    /\ UNCHANGED notBackend

\* retriever.py 235-253: DenseSearchEngine.search up to its batch_embed call;
\* line 247 reads self._index.shape, an AttributeError on None.
SearchDense ==
    /\ engine = "dense"
    /\ Begin("search")
    /\ se_result' = << >>
    /\ se_top_k' = 0
    /\ IF self_index = None
       THEN /\ se_outcome' = "AttributeError"
            /\ se_pc' = "ready"
            /\ UNCHANGED <<docs, batch_size, range_next, i, all_embeddings, be_pc,
                           be_error, stacked>>
       ELSE /\ \E query \in Queries : EmbedEntry(<<query>>, DefaultBatchSize)
            /\ se_pc' = "search_embed"
            /\ UNCHANGED se_outcome
    /\ UNCHANGED <<engine, corpus, self_index, self_data, remote_exists, storeCalls,
                   fit_next, fit_i, fitted>>
    /\ UNCHANGED <<embedCalls, sleeps>>
    /\ UNCHANGED notBackend

\* retriever.py 343-348: VectorStoreSearchEngine.search up to its batch_embed
\* call, the first statement of the method.
SearchStore ==
    /\ engine = "vstore"
    /\ Begin("search")
    /\ se_result' = << >>
    /\ se_top_k' = 0
    /\ \E query \in Queries : EmbedEntry(<<query>>, DefaultBatchSize)
    /\ se_pc' = "search_embed"
    /\ UNCHANGED <<engine, corpus, self_index, self_data, remote_exists, se_outcome,
                   storeCalls, fit_next, fit_i, fitted>>
    /\ UNCHANGED <<embedCalls, sleeps>>
    /\ UNCHANGED notBackend

\* retriever.py 256-272 (dense) and 350-363 (vector store): the search after
\* batch_embed returned the query's embedding. self._index.query on None is an
\* AttributeError. The records held under the store's index name are those
\* of the corpus.
SearchRanked ==
    /\ se_pc = "search_embed"
    /\ be_pc = "returned"
    /\ \E k \in 1 .. MaxRes :
          /\ se_top_k' = k
          /\ IF engine = "dense"
             THEN /\ \E ranked \in
                        top_k_indices(cosine_distances(docs[1], self_data[1]), k) :
                        se_result' = Output(self_data[1], ranked)
                  /\ se_outcome' = "returned"
                  /\ UNCHANGED storeCalls
             ELSE IF self_index = None
             THEN /\ se_outcome' = "AttributeError"
                  /\ se_result' = << >>
                  /\ UNCHANGED storeCalls
             ELSE /\ storeCalls' = Append(storeCalls,
                                          [call |-> "query", vector |-> stacked[1], top_k |-> k])
                  /\ se_outcome' = "returned"
                  /\ \E matches \in Matches(docs[1], corpus, k, One) :
                        se_result' = Output(corpus, matches)
    /\ se_pc' = "ready"
    /\ UNCHANGED <<engine, corpus, self_index, self_data, remote_exists, se_op, fit_next,
                   fit_i, ops, fitted, search_unfitted, search_base>>
    /\ UNCHANGED embedVars
    /\ UNCHANGED notBackend

\* An exception of batch_embed is caught by none of its callers (228, 249, 329,
\* 344): the operation ends with it.
EmbedErrorPropagates ==
    /\ se_pc \in {"fit_embed", "fit_batch_embed", "search_embed"}
    /\ be_pc = "raised"
    /\ se_outcome' = be_error
    /\ se_pc' = "ready"
    /\ UNCHANGED <<se_top_k, engine, corpus, self_index, self_data, remote_exists, se_op, se_result,
                   storeCalls, fit_next, fit_i, ops, fitted, search_unfitted, search_base>>
    /\ UNCHANGED embedVars
    /\ UNCHANGED notBackend

\* ------------------------------------------------------------ chunk_dataset
\* utils.py 128-129: the md5 hex digest of the text (digests of different
\* texts are taken to differ).
make_id(content) == [md5 |-> content]

\* utils.py 44-92: the plain text of a pdf or markdown chunk.
convert_contents_to_text(contents, file_type) == [plain |-> contents, of |-> file_type]

\* What a chunker may return for a document: up to MaxDocChunks chunk texts
\* cut from the content, all different or all the same text.
ChunkLists(content) ==
    {[j \in 1 .. n |-> <<content, j>>] : n \in 0 .. MaxDocChunks}
        \cup {[j \in 1 .. n |-> <<content, 1>>] : n \in 2 .. MaxDocChunks}

\* utils.py 728, 739, 751, 762: the text field of the branch taken.
ChunkText(branch, chunk) ==
    IF branch \in {"python", "notebook"} THEN chunk
    ELSE convert_contents_to_text(chunk, branch)

\* utils.py 724-732: the records of one document's chunks, numbered by
\* enumerate from 0.
DocChunks(doc, list, branch) ==
    [j \in 1 .. Len(list) |->
        [file_type |-> doc.file_type,
         chunk |-> list[j],
         text |-> ChunkText(branch, list[j]),
         chunk_id |-> make_id(list[j]),
         doc_id |-> make_id(doc.content),
         chunk_number |-> j - 1]]

DatasetIdle ==
    /\ ds = << >>
    /\ ds_next = 1
    /\ all_chunks = << >>
    /\ chunker_out = << >>
    /\ cd_pc = "idle"

\* The chunk list a chunker returns for the document: any list the first
\* time, the same list when the same document is chunked again in the call.
Chunked(doc, list) ==
    /\ list \in ChunkLists(doc.content)
    /\ \A j \in 1 .. Len(chunker_out) : chunker_out[j].doc = doc => chunker_out[j].list = list
    /\ chunker_out' = Append(chunker_out, [doc |-> doc, list |-> list])

\* utils.py 719-720 and the loop of the branch taken: one iteration of the
\* loop over the documents.
DatasetDoc(branch) ==
    /\ \E list \in ChunkLists(ds[ds_next].content) :
           /\ Chunked(ds[ds_next], list)
           /\ all_chunks' = all_chunks \o DocChunks(ds[ds_next], list, branch)
    /\ ds_next' = ds_next + 1
    /\ UNCHANGED <<ds, cd_pc>>
    /\ UNCHANGED notDataset

NextDocIs(file_type) ==
    /\ cd_pc = "loop"
    /\ ds_next <= Len(ds)
    /\ ds[ds_next].file_type = file_type

\* utils.py 721-732: a python document, chunked by chunk_source_code.
DatasetPython ==
    /\ NextDocIs("python")
    /\ DatasetDoc("python")

\* utils.py 733-743: a notebook, chunked by chunk_notebook.
DatasetNotebook ==
    /\ NextDocIs("notebook")
    /\ DatasetDoc("notebook")

\* utils.py 744-755: a pdf, chunked by chunk_pdf.
DatasetPdf ==
    /\ NextDocIs("pdf")
    /\ DatasetDoc("pdf")

\* utils.py 756-766: any other document, chunked by chunk_markdown.
DatasetMarkdown ==
    /\ NextDocIs("markdown")
    /\ DatasetDoc("markdown")

\* utils.py 767: the return after the last document.
DatasetReturn ==
    /\ cd_pc = "loop"
    /\ ds_next > Len(ds)
    /\ cd_pc' = "returned"
    /\ UNCHANGED <<ds, ds_next, all_chunks, chunker_out>>
    /\ UNCHANGED notDataset

\* -------------------------------------------------------- chunk_source_code
\* The syntax tree the parser hands over. A node is a record with its type; a
\* definition carries its name, the identifiers its own statements mention
\* (uses) and its nested definitions. A text is a sequence of lines, a line a
\* tuple of strings.
ImportA ==
    [type |-> "import_statement", names |-> {"a"}, text |-> <<"import", "a">>]

ImportBC ==
    [type |-> "import_from_statement", names |-> {"b", "c"},
     text |-> <<"from", "m", "import", "b", "c">>]

AssignV == [type |-> "expression_statement", target |-> "V", text |-> <<"V", "=", "0">>]

AssignW == [type |-> "expression_statement", target |-> "W", text |-> <<"W", "=", "1">>]

\* The statements every module of the model starts with.
Prelude == <<ImportA, ImportBC, AssignV, AssignW>>

FunctionNode(name, uses, body) ==
    [type |-> "function_definition", name |-> name, uses |-> uses, body |-> body,
     oneline |-> FALSE]

\* def h(): pass
OneLiner(name) ==
    [type |-> "function_definition", name |-> name, uses |-> {}, body |-> << >>,
     oneline |-> TRUE]

\* uses: the identifiers of the decorator expressions.
DecoratedNode(inner, uses) ==
    [type |-> "decorated_definition", uses |-> uses, inner |-> inner]

\* uses: the identifiers of the class attribute assignments (one attribute
\* line when there are any).
ClassNode(name, uses, members) ==
    [type |-> "class_definition", name |-> name, uses |-> uses, members |-> members]

UseSets == {{}, {"b", "c"}, {"a", "b", "V", "W"}}

DecoratorUses == {{}, {"c", "W"}}

NestedNames == <<"g1", "g2", "g3">>

MethodNames == <<"m1", "m2", "m3", "m4">>

Nested(kind, j, u) ==
    IF kind = "plain" THEN FunctionNode(NestedNames[j], u, << >>)
    ELSE DecoratedNode(FunctionNode(NestedNames[j], u, << >>), {})

\* A function f with up to MaxNest nested definitions, plain or decorated.
Functions(u) ==
    {FunctionNode("f", u, [j \in 1 .. Len(ks) |-> Nested(ks[j], j, u)]) :
        ks \in SeqsUpTo({"plain", "decorated"}, MaxNest)}

Method(kind, j, u) ==
    CASE kind = "plain" -> FunctionNode(MethodNames[j], u, << >>)
      [] kind = "decorated" -> DecoratedNode(FunctionNode(MethodNames[j], u, << >>), {})
      [] kind = "nesting" ->
             FunctionNode(MethodNames[j], u, <<FunctionNode(NestedNames[1], u, << >>)>>)

Constructors(u) ==
    {<< >>,
     <<FunctionNode("__init__", u, << >>)>>,
     <<DecoratedNode(FunctionNode("__init__", u, << >>), {})>>}

\* A class C: no constructor or one, then up to MaxMethods other methods.
Classes(u) ==
    {ClassNode("C", u, init \o [j \in 1 .. Len(ks) |-> Method(ks[j], j, u)]) :
        init \in Constructors(u),
        ks \in SeqsUpTo({"plain", "decorated", "nesting"}, MaxMethods)}

Definitions == UNION {Functions(u) \cup Classes(u) : u \in UseSets}

TopLevel ==
    Definitions
        \cup {DecoratedNode(d, du) : d \in Definitions, du \in DecoratorUses}
        \cup {OneLiner("h")}

\* The modules of the model: the prelude and one top-level definition.
Modules == {Prelude \o <<d>> : d \in TopLevel}

IndentAll(lines) == [j \in 1 .. Len(lines) |-> <<"    ">> \o lines[j]]

RECURSIVE Text(_)
RECURSIVE TextAll(_)
\* node.text: the lines of the node's source.
Text(node) ==
    CASE node.type = "function_definition" ->
             IF node.oneline THEN <<<<"def", node.name, "pass">>>>
             ELSE <<<<"def", node.name>>, <<"    ", "body">>>>
                      \o IndentAll(TextAll(node.body))
      [] node.type = "decorated_definition" -> <<<<"@", "decorator">>>> \o Text(node.inner)
      [] node.type = "class_definition" ->
             <<<<"class", node.name>>>>
                 \o (IF node.uses = {} THEN << >> ELSE <<<<"    ", "attr", "=", "value">>>>)
                 \o IndentAll(TextAll(node.members))
      [] OTHER -> <<node.text>>

TextAll(nodes) == IF nodes = << >> THEN << >> ELSE Text(Head(nodes)) \o TextAll(Tail(nodes))

\* utils.py 175-180 and 183-203: the import statements of the module and the
\* map from each name they bind to the statement's text (a later statement
\* binding the same name wins).
ImportMap ==
    LET imports == {j \in 1 .. Len(tree) :
                       tree[j].type \in {"import_statement", "import_from_statement"}}
        binds(n) == {j \in imports : n \in tree[j].names}
    IN  [n \in UNION {tree[j].names : j \in imports} |->
            tree[CHOOSE j \in binds(n) : \A l \in binds(n) : l <= j].text]

\* utils.py 206-216: the targets of the module-level assignments.
ModuleVariables ==
    {tree[j].target : j \in {l \in 1 .. Len(tree) : tree[l].type = "expression_statement"}}

\* The orders in which a set can hand out all of S.
Orders(S) ==
    {o \in [1 .. Cardinality(S) -> S] : \A a, b \in 1 .. Cardinality(S) : a # b => o[a] # o[b]}

\* The iteration order of Python's string sets is fixed by the process's hash
\* seed. What the chunker can observe of it: the order of the module
\* variables within a set of identifiers, and the order of the import texts
\* within a set of import texts.
HashOrders ==
    {[vars |-> v, imports |-> t] :
        v \in Orders({AssignV.target, AssignW.target}),
        t \in Orders({ImportA.text, ImportBC.text})}

\* The members of S in the order the set iterates.
InOrder(order, S) == SelectSeq(order, LAMBDA x : x \in S)

\* The context argument of the process_ functions: {} is EmptyContext.
EmptyContext == [parent_class |-> None, parent_function |-> None]

\* utils.py 326-343 (also 264-288, 427-444): the used imports and module
\* variables among the identifiers, each in set iteration order, and the
\* parents copied from the context argument.
BuildContext(identifiers, context) ==
    [imports |->
         InOrder(hash_order.imports,
                 {ImportMap[n] : n \in identifiers \cap DOMAIN ImportMap}),
     module_variables |-> InOrder(hash_order.vars, identifiers \cap ModuleVariables),
     parent_class |-> context.parent_class,
     parent_function |-> context.parent_function]

\* utils.py 345-346: a context with no key is None.
ContextIsNone(c) ==
    /\ c.imports = << >>
    /\ c.module_variables = << >>
    /\ c.parent_class = None
    /\ c.parent_function = None

\* utils.py 219-233 on a function body: the identifiers of the body's own
\* statements and of the decorators of the decorated definitions in it; the
\* bodies of nested definitions are not entered.
BodyIdentifiers(node) ==
    node.uses \cup UNION {node.body[j].uses :
                             j \in {l \in 1 .. Len(node.body) :
                                        node.body[l].type = "decorated_definition"}}

\* utils.py 244-303: one chunk for the whole decorated node. The identifiers
\* are those of the decorators: collect_identifiers does not enter the body of
\* the inner definition.
process_decorated_definition(node, context) ==
    IF node.inner.type \notin {"function_definition", "class_definition"} THEN << >>
    ELSE <<[type |-> IF node.inner.type = "function_definition"
                     THEN IF context.parent_class # None THEN "method" ELSE "function"
                     ELSE "class",
            name |-> node.inner.name,
            definition |-> Text(node),
            context |-> BuildContext(node.uses, context)]>>

RECURSIVE process_function(_, _)
RECURSIVE NestedChunks(_, _, _)
\* utils.py 306-380: the function's chunk, then the chunks of the definitions
\* nested directly in its body.
process_function(node, context) ==
    <<[type |-> IF context.parent_class # None THEN "method" ELSE "function",
       name |-> node.name,
       definition |-> Text(node),
       context |-> BuildContext(BodyIdentifiers(node), context)]>>
        \o NestedChunks(node.body, node.name, context)

\* utils.py 366-379: the loop over the children of the body.
NestedChunks(children, func_name, context) ==
    IF children = << >> THEN << >>
    ELSE (IF Head(children).type = "function_definition"
          THEN process_function(Head(children),
                                [context EXCEPT !.parent_function = Some(func_name)])
          ELSE IF Head(children).type = "decorated_definition"
          THEN process_decorated_definition(Head(children), context)
          ELSE << >>)
             \o NestedChunks(Tail(children), func_name, context)

\* utils.py 405-425: whether a child of the class body is a method, plain or
\* decorated, and its name.
IsMethod(child) ==
    \/ child.type = "function_definition"
    \/ child.type = "decorated_definition" /\ child.inner.type = "function_definition"

MethodNameOf(child) ==
    IF child.type = "function_definition" THEN child.name ELSE child.inner.name

Blank == << >>

\* "    " + text: the first line of the text indented.
IndentFirst(lines) == <<<<"    ">> \o Head(lines)>> \o Tail(lines)

RECURSIVE MethodChunks(_, _)
\* utils.py 471-484: the chunks of the other methods, each processed with the
\* copy of the context.
MethodChunks(other_methods, context_copy) ==
    IF other_methods = << >> THEN << >>
    ELSE (IF Head(other_methods).type = "decorated_definition"
          THEN process_decorated_definition(Head(other_methods), context_copy)
          ELSE process_function(Head(other_methods), context_copy))
             \o MethodChunks(Tail(other_methods), context_copy)

\* utils.py 393-425: the __init__ methods and the other methods of the body.
InitMethods(node) ==
    SelectSeq(node.members, LAMBDA c : IsMethod(c) /\ MethodNameOf(c) = "__init__")

OtherMethods(node) ==
    SelectSeq(node.members, LAMBDA c : IsMethod(c) /\ MethodNameOf(c) # "__init__")

\* utils.py 446-458: the class header, the attributes and the last __init__.
ClassDefinition(node) ==
    <<<<"class", node.name>>>>
        \o (IF node.uses = {} THEN << >> ELSE <<<<"    ", "attr", "=", "value">>>>)
        \o (IF InitMethods(node) = << >> THEN << >>
            ELSE <<Blank, Blank>>
                     \o IndentFirst(Text(InitMethods(node)[Len(InitMethods(node))])))

\* The class's chunks with parent_class left out of the methods' context.
MutProcessClassNoParent(node, context) ==
    <<[type |-> "class",
       name |-> node.name,
       definition |-> ClassDefinition(node),
       context |-> BuildContext(node.uses, EmptyContext)]>>
        \o MethodChunks(OtherMethods(node), context)

\* utils.py 383-485: the class chunk, then the chunks of the other methods
\* with parent_class set to the class name.
process_class(node, context) ==
    <<[type |-> "class",
       name |-> node.name,
       definition |-> ClassDefinition(node),
       context |-> BuildContext(node.uses, EmptyContext)]>>
        \o MethodChunks(OtherMethods(node), [context EXCEPT !.parent_class = Some(node.name)])

\* utils.py 531-545: the lines of the context string.
ContextLines(c) ==
    c.imports
        \o [j \in 1 .. Len(c.module_variables) |-> <<c.module_variables[j]>>]
        \o (IF c.parent_class = None THEN << >>
            ELSE <<Blank, <<"class:", c.parent_class[1]>>, <<"    ", "# ... (more)">>>>)
        \o (IF c.parent_function = None THEN << >>
            ELSE <<Blank, <<"def:", c.parent_function[1]>>, <<"    ", "# ... (more)">>>>)

\* utils.py 527-552: the string of one chunk, as its lines.
ChunkStr(chunk) ==
    IF ContextIsNone(chunk.context) THEN chunk.definition
    ELSE ContextLines(chunk.context)
             \o <<Blank>>
             \o (IF chunk.type = "class" THEN chunk.definition
                 ELSE IndentFirst(chunk.definition))

IsBlank(line) == line = Blank \/ line = <<"    ">>

RECURSIVE LStrip(_)
LStrip(lines) ==
    IF lines # << >> /\ IsBlank(Head(lines)) THEN LStrip(Tail(lines)) ELSE lines

RECURSIVE RStrip(_)
RStrip(lines) ==
    IF lines # << >> /\ IsBlank(lines[Len(lines)])
    THEN RStrip(SubSeq(lines, 1, Len(lines) - 1))
    ELSE lines

\* utils.py 563: len(x.strip().splitlines()) > 1
HasSeveralLines(lines) == Len(RStrip(LStrip(lines))) > 1

\* sent_tokenize and tokenize_text on a chunk string: taken as one sentence
\* of one token for every line that is not blank.
LineSentences(lines) ==
    LET kept == SelectSeq(lines, LAMBDA l : ~IsBlank(l))
    IN  [j \in 1 .. Len(kept) |-> <<kept[j]>>]

RECURSIVE PackFrom(_, _, _, _, _)
PackFrom(sents, size, done, running, length) ==
    IF sents = << >>
    THEN IF running # << >> THEN Append(done, Join(running)) ELSE done
    ELSE LET words == Head(sents)
         IN  IF length + Len(words) > size /\ running # << >>
             THEN PackFrom(Tail(sents), size, Append(done, Join(running)), words, Len(words))
             ELSE PackFrom(Tail(sents), size, done, running \o words, length + Len(words))

\* utils.py 101-125 as a function of the sentences and the budget.
chunk_simple(sents, size) == PackFrom(sents, size, << >>, << >>, 0)

RECURSIVE PackAll(_, _)
\* utils.py 564-565: chunk_simple on every string, the results concatenated.
PackAll(strs, size) ==
    IF strs = << >> THEN << >>
    ELSE chunk_simple(LineSentences(Head(strs)), size) \o PackAll(Tail(strs), size)

CodeIdle ==
    /\ tree = << >>
    /\ hash_order = [vars |-> << >>, imports |-> << >>]
    /\ cc_chunk_size = 300
    /\ root_next = 1
    /\ code_chunks = << >>
    /\ chunks_strs = << >>
    /\ sc_pc = "idle"
    /\ first_strs = None

\* process_root is looking at a child of the given types.
RootChildIs(types) ==
    /\ sc_pc = "root"
    /\ root_next <= Len(tree)
    /\ tree[root_next].type \in types

RootStep(new_chunks) ==
    /\ code_chunks' = code_chunks \o new_chunks
    /\ root_next' = root_next + 1
    /\ UNCHANGED <<tree, hash_order, cc_chunk_size, chunks_strs, sc_pc, first_strs>>
    /\ UNCHANGED notCode

\* utils.py 493-496: an import statement adds no chunk.
RootImport ==
    /\ RootChildIs({"import_statement", "import_from_statement"})
    /\ RootStep(<< >>)

\* utils.py 497-505
RootClass ==
    /\ RootChildIs({"class_definition"})
    /\ RootStep(process_class(tree[root_next], EmptyContext))

\* utils.py 506-514
RootFunction ==
    /\ RootChildIs({"function_definition"})
    /\ RootStep(process_function(tree[root_next], EmptyContext))

\* utils.py 515-523
RootDecorated ==
    /\ RootChildIs({"decorated_definition"})
    /\ RootStep(process_decorated_definition(tree[root_next], EmptyContext))

\* utils.py 492-523: a child of any other type falls through the chain.
RootOther ==
    /\ RootChildIs({"expression_statement"})
    /\ RootStep(<< >>)

\* utils.py 562-565: the strings of the chunks, those of one line dropped,
\* each of the others packed by chunk_simple.
CodeFinish ==
    /\ sc_pc = "root"
    /\ root_next > Len(tree)
    /\ LET strs == [j \in 1 .. Len(code_chunks) |-> ChunkStr(code_chunks[j])]
       IN  chunks_strs' = PackAll(SelectSeq(strs, HasSeveralLines), cc_chunk_size)
    /\ sc_pc' = "returned"
    /\ UNCHANGED <<tree, hash_order, cc_chunk_size, root_next, code_chunks, first_strs>>
    /\ UNCHANGED notCode

\* The same content is chunked a second time, in the same process or in
\* another one, whose sets may iterate in another order.
CodeAgain ==
    /\ sc_pc = "returned"
    /\ first_strs = None
    /\ first_strs' = Some(chunks_strs)
    /\ \E same_process \in BOOLEAN :
           IF same_process THEN UNCHANGED hash_order ELSE hash_order' \in HashOrders
    /\ root_next' = 1
    /\ code_chunks' = << >>
    /\ chunks_strs' = << >>
    /\ sc_pc' = "root"
    /\ UNCHANGED <<tree, cc_chunk_size>>
    /\ UNCHANGED notCode

\* ---------------------------------------------------------------- chunk_pdf
\* A string is the sequence of its characters.
ConsolidatedStatementsOf ==
    <<"C", "O", "N", "S", "O", "L", "I", "D", "A", "T", "E", "D", " ", "S", "T", "A",
      "T", "E", "M", "E", "N", "T", "S", " ", "O", "F">>

NotesTo ==
    <<"N", "O", "T", "E", "S", " ", "T", "O">>

PartMarker ==
    <<"P", "A", "R", "T", " ">>

ItemMarker ==
    <<"I", "t", "e", "m", " ">>

TableOfContents ==
    <<"T", "A", "B", "L", "E", " ", "O", "F", " ", "C", "O", "N", "T", "E", "N", "T",
      "S">>

\* utils.py 662-668
section_markers ==
    <<ConsolidatedStatementsOf, NotesTo, PartMarker, ItemMarker, TableOfContents>>

RevenueLine ==
    <<"R", "e", "v", "e", "n", "u", "e", " ", "$", " ", "1", ",", "2", "3", "4">>

\* The lines a document of the model is made of: one line for each marker
\* ("Item 1. Business" for the fourth), the table line, the narrative sentence
\* "Sales rose." and the marker in lower case after blanks "  part ii".
PdfLines ==
    {ConsolidatedStatementsOf \o <<" ", "X">>,
     NotesTo \o <<" ", "X">>,
     PartMarker \o <<"I">>,
     ItemMarker \o <<"1", ".", " ", "B", "u", "s", "i", "n", "e", "s", "s">>,
     TableOfContents,
     RevenueLine,
     <<"S", "a", "l", "e", "s", " ", "r", "o", "s", "e", ".">>,
     <<" ", " ", "p", "a", "r", "t", " ", "i", "i">>}

RECURSIVE JoinWith(_, _)
\* sep.join(strings)
JoinWith(strings, sep) ==
    IF strings = << >> THEN << >>
    ELSE IF Len(strings) = 1 THEN strings[1]
    ELSE strings[1] \o sep \o JoinWith(Tail(strings), sep)

RECURSIVE SplitAt(_, _, _)
\* The pieces of str between the separator characters, piece being the one
\* in progress.
SplitAt(str, seps, piece) ==
    IF str = << >> THEN <<piece>>
    ELSE IF Head(str) \in seps THEN <<piece>> \o SplitAt(Tail(str), seps, << >>)
    ELSE SplitAt(Tail(str), seps, Append(piece, Head(str)))

\* str.splitlines(): the pieces between the line breaks, without an empty
\* piece after the last line break.
SplitLines(str) ==
    LET pieces == SplitAt(str, {"\n"}, << >>)
    IN  IF pieces[Len(pieces)] = << >> THEN SubSeq(pieces, 1, Len(pieces) - 1) ELSE pieces

Whitespace == {" ", "\t", "\n"}

RECURSIVE StripLeft(_)
StripLeft(str) ==
    IF str # << >> /\ Head(str) \in Whitespace THEN StripLeft(Tail(str)) ELSE str

RECURSIVE StripRight(_)
StripRight(str) ==
    IF str # << >> /\ str[Len(str)] \in Whitespace
    THEN StripRight(SubSeq(str, 1, Len(str) - 1))
    ELSE str

\* str.strip()
Strip(str) == StripRight(StripLeft(str))

\* str.upper(): every lower-case letter replaced by its capital.
Upper(str) ==
    LET lower == <<"a", "b", "c", "d", "e", "f", "g", "h", "i", "j", "k", "l", "m",
                   "n", "o", "p", "q", "r", "s", "t", "u", "v", "w", "x", "y", "z">>
        upper == <<"A", "B", "C", "D", "E", "F", "G", "H", "I", "J", "K", "L", "M",
                   "N", "O", "P", "Q", "R", "S", "T", "U", "V", "W", "X", "Y", "Z">>
    IN  [j \in 1 .. Len(str) |->
            IF \E l \in 1 .. 26 : lower[l] = str[j]
            THEN upper[CHOOSE l \in 1 .. 26 : lower[l] = str[j]]
            ELSE str[j]]

\* str.startswith(prefix)
StartsWith(str, prefix) ==
    Len(str) >= Len(prefix) /\ SubSeq(str, 1, Len(prefix)) = prefix

\* utils.py 676: whether the line, stripped and upper-cased, starts with one
\* of the markers as they are written in the list.
is_new_section(line) ==
    \E k \in 1 .. Len(section_markers) : StartsWith(Upper(Strip(line)), section_markers[k])

DigitsOrComma == {"0", "1", "2", "3", "4", "5", "6", "7", "8", "9", ","}

\* The table test with no white space allowed after the dollar sign.
MutHasTableNoSpace(section) ==
    \E p \in 1 .. Len(section) - 1 : section[p] = "$" /\ section[p + 1] \in DigitsOrComma

\* utils.py 691: re.search(r'\$\s*[\d,]+', section): a dollar sign, any white
\* space, then a digit or a comma.
has_table(section) ==
    \E p \in 1 .. Len(section) :
        /\ section[p] = "$"
        /\ \E q \in p + 1 .. Len(section) :
               /\ section[q] \in DigitsOrComma
               /\ \A m \in p + 1 .. q - 1 : section[m] \in Whitespace

\* sent_tokenize(section): taken as one sentence for every line that is not
\* blank, stripped.
PdfSentences(section) ==
    LET lines == SplitLines(section)
    IN  SelectSeq([j \in 1 .. Len(lines) |-> Strip(lines[j])], LAMBDA str : str # << >>)

\* tokenize_text(sentence): taken as the words between the blanks.
PdfTokens(sentence) == SelectSeq(SplitAt(sentence, {" "}, << >>), LAMBDA str : str # << >>)

RECURSIVE MutPdfPackNoGuard(_, _, _, _, _)
MutPdfPackNoGuard(sents, size, done, running, length) ==
    IF sents = << >>
    THEN IF running # << >> THEN Append(done, JoinWith(running, <<" ">>)) ELSE done
    ELSE LET sentence_tokens == PdfTokens(Head(sents))
         IN  IF length + Len(sentence_tokens) > size
             THEN MutPdfPackNoGuard(Tail(sents), size,
                                    Append(done, JoinWith(running, <<" ">>)),
                                    <<Head(sents)>>, Len(sentence_tokens))
             ELSE MutPdfPackNoGuard(Tail(sents), size, done, Append(running, Head(sents)),
                                    length + Len(sentence_tokens))

RECURSIVE PdfPackFrom(_, _, _, _, _)
\* utils.py 698-713: the packing loop, from the sentences still to take, the
\* chunks done, the running chunk's sentences and its token count.
PdfPackFrom(sents, size, done, running, length) ==
    IF sents = << >>
    THEN IF running # << >> THEN Append(done, JoinWith(running, <<" ">>)) ELSE done
    ELSE LET sentence_tokens == PdfTokens(Head(sents))
         IN  IF length + Len(sentence_tokens) > size /\ running # << >>
             THEN PdfPackFrom(Tail(sents), size, Append(done, JoinWith(running, <<" ">>)),
                              <<Head(sents)>>, Len(sentence_tokens))
             ELSE PdfPackFrom(Tail(sents), size, done, Append(running, Head(sents)),
                              length + Len(sentence_tokens))

PdfIdle ==
    /\ pdf_content = << >>
    /\ pdf_chunk_size = 500
    /\ splitlines = << >>
    /\ line_next = 1
    /\ sections = << >>
    /\ current_section = << >>
    /\ section_next = 1
    /\ pdf_chunks = << >>
    /\ pdf_pc = "idle"
    /\ line_log = << >>
    /\ chunk_section = << >>

\* The first loop is at a line of content.splitlines().
AtLine ==
    /\ pdf_pc = "lines"
    /\ line_next <= Len(splitlines)

Logged(line, started) ==
    /\ line_log' = Append(line_log, [line |-> line, was_open |-> current_section # << >>,
                                      started |-> started])
    /\ line_next' = line_next + 1
    /\ UNCHANGED <<pdf_content, pdf_chunk_size, splitlines, section_next, pdf_chunks, pdf_pc,
                   chunk_section>>
    /\ UNCHANGED notPdf

\* utils.py 678-680: a marker line with a section open closes it and starts
\* the next section.
PdfNewSection ==
    /\ AtLine
    /\ LET line == splitlines[line_next]
       IN  /\ is_new_section(line) /\ current_section # << >>
           /\ sections' = Append(sections, JoinWith(current_section, <<"\n">>))
           /\ current_section' = <<line>>
           /\ Logged(line, TRUE)

\* utils.py 681-682: any other line joins the open section.
PdfAppendLine ==
    /\ AtLine
    /\ LET line == splitlines[line_next]
       IN  /\ ~(is_new_section(line) /\ current_section # << >>)
           /\ current_section' = Append(current_section, line)
           /\ UNCHANGED sections
           /\ Logged(line, FALSE)

\* utils.py 684-685: the last section, if any.
PdfLinesDone ==
    /\ pdf_pc = "lines"
    /\ line_next > Len(splitlines)
    /\ sections' = IF current_section # << >>
                   THEN Append(sections, JoinWith(current_section, <<"\n">>))
                   ELSE sections
    /\ pdf_pc' = "sections"
    /\ UNCHANGED <<pdf_content, pdf_chunk_size, splitlines, line_next, current_section, section_next,
                   pdf_chunks, line_log, chunk_section>>
    /\ UNCHANGED notPdf

AtSection ==
    /\ pdf_pc = "sections"
    /\ section_next <= Len(sections)

SectionStep(new_chunks) ==
    /\ pdf_chunks' = pdf_chunks \o new_chunks
    /\ chunk_section' = chunk_section \o [j \in 1 .. Len(new_chunks) |-> section_next]
    /\ section_next' = section_next + 1
    /\ UNCHANGED <<pdf_content, pdf_chunk_size, splitlines, line_next, sections, current_section,
                   pdf_pc, line_log>>
    /\ UNCHANGED notPdf

\* utils.py 693-695: a section with a table is one chunk.
PdfTableSection ==
    /\ AtSection
    /\ has_table(sections[section_next])
    /\ SectionStep(<<sections[section_next]>>)

\* utils.py 696-713: a narrative section is packed sentence by sentence.
PdfNarrativeSection ==
    /\ AtSection
    /\ ~has_table(sections[section_next])
    /\ SectionStep(PdfPackFrom(PdfSentences(sections[section_next]), pdf_chunk_size,
                               << >>, << >>, 0))

\* utils.py 715
PdfReturn ==
    /\ pdf_pc = "sections"
    /\ section_next > Len(sections)
    /\ pdf_pc' = "returned"
    /\ UNCHANGED <<pdf_content, pdf_chunk_size, splitlines, line_next, sections, current_section,
                   section_next, pdf_chunks, line_log, chunk_section>>
    /\ UNCHANGED notPdf

\* --------------------------------------------------------- specifications
InvIdle ==
    /\ variant = "single"
    /\ num_results = None
    /\ arg_k = None
    /\ arg_n = None
    /\ top_k = 0
    /\ top_n = 0
    /\ inv_pc = "idle"
    /\ inv_error = ""
    /\ searchCalls = << >>
    /\ sparse_retrievals = << >>
    /\ dense_retrievals = << >>
    /\ retrievals = << >>
    /\ deduped_retrievals = << >>
    /\ rerankInvokes = << >>
    /\ rerankCalls = << >>
    /\ reranked = << >>

\* One call of invoke on either orchestrator, with any arguments.
InvokeInit ==
    /\ InvInit
    /\ EmbedIdle
    /\ PackIdle
    /\ BackendIdle
    /\ DatasetIdle
    /\ CodeIdle
    /\ PdfIdle

InvokeNext == Derive \/ SingleSearch \/ SparseSearch \/ DenseSearch \/ Rerank

SpecInvoke == InvokeInit /\ [][InvokeNext]_vars

\* One call of batch_embed with any texts and any batch size.
BatchEmbedInit ==
    /\ docs \in SeqsUpTo(Texts, MaxDocs)
    /\ batch_size \in 1 .. MaxBatch
    /\ range_next = 0
    /\ i = 0
    /\ all_embeddings = << >>
    /\ embedCalls = << >>
    /\ sleeps = << >>
    /\ be_pc = "loop"
    /\ be_error = ""
    /\ stacked = << >>
    /\ InvIdle
    /\ PackIdle
    /\ BackendIdle
    /\ DatasetIdle
    /\ CodeIdle
    /\ PdfIdle

BatchEmbedNext == EmbedOk \/ EmbedRaises \/ EmbedFinish

\* The call keeps running: an iteration that can be taken is taken (the
\* provider answers or raises, and the sleeps end).
SpecEmbedFair == BatchEmbedInit /\ [][BatchEmbedNext]_vars /\ WF_vars(BatchEmbedNext)

SpecEmbed == BatchEmbedInit /\ [][BatchEmbedNext]_vars

\* One call of chunk_simple with any sentences and any budget.
PackInit ==
    /\ sentences \in SeqsUpTo(SentenceSet, MaxSentences)
    /\ chunk_size \in 1 .. MaxBudget
    /\ chunks = << >>
    /\ current_chunk = << >>
    /\ current_length = 0
    /\ sent_next = 1
    /\ cs_pc = "loop"
    /\ chunk_sents = << >>
    /\ current_sents = << >>
    /\ InvIdle
    /\ EmbedIdle
    /\ BackendIdle
    /\ DatasetIdle
    /\ CodeIdle
    /\ PdfIdle

PackNext == PackSentence \/ PackFinish

SpecPack == PackInit /\ [][PackNext]_vars

\* The life of one backend instance: up to MaxOps operations, one at a time.
BackendInit ==
    /\ BackendConstructed
    /\ EmbedIdle
    /\ InvIdle
    /\ PackIdle
    /\ DatasetIdle
    /\ CodeIdle
    /\ PdfIdle

BackendNext ==
    \/ FitLexical \/ FitDense \/ FitDenseDone
    \/ FitStore \/ FitStoreBatch \/ FitStoreUpsert \/ FitStoreDone \/ Load
    \/ SearchLexical \/ SearchDense \/ SearchStore \/ SearchRanked
    \/ EmbedErrorPropagates
    \/ EmbedOk \/ EmbedRaises \/ EmbedFinish

SpecBackend == BackendInit /\ [][BackendNext]_vars

\* One call of chunk_dataset with any documents of the four file types.
DatasetInit ==
    /\ ds \in SeqsUpTo([content : 1 .. MaxContent,
                         file_type : {"python", "notebook", "pdf", "markdown"}], MaxDs)
    /\ ds_next = 1
    /\ all_chunks = << >>
    /\ chunker_out = << >>
    /\ cd_pc = "loop"
    /\ InvIdle
    /\ EmbedIdle
    /\ PackIdle
    /\ BackendIdle
    /\ CodeIdle
    /\ PdfIdle

DatasetNext ==
    DatasetPython \/ DatasetNotebook \/ DatasetPdf \/ DatasetMarkdown \/ DatasetReturn

SpecDataset == DatasetInit /\ [][DatasetNext]_vars

\* chunk_source_code on any module of the model, with a tight budget or the
\* default one, run twice.
CodeInit ==
    /\ tree \in Modules
    /\ hash_order \in HashOrders
    /\ cc_chunk_size \in {2, 300}
    /\ root_next = 1
    /\ code_chunks = << >>
    /\ chunks_strs = << >>
    /\ sc_pc = "root"
    /\ first_strs = None
    /\ InvIdle
    /\ EmbedIdle
    /\ PackIdle
    /\ BackendIdle
    /\ DatasetIdle
    /\ PdfIdle

CodeNext ==
    \/ RootImport \/ RootClass \/ RootFunction \/ RootDecorated \/ RootOther
    \/ CodeFinish \/ CodeAgain

SpecCode == CodeInit /\ [][CodeNext]_vars

\* A budget no two sentences fit, one that two short sentences fill, and the
\* default.
PdfBudgets == {2, 4, 500}

\* One call of chunk_pdf on any document of up to MaxPdfLines lines.
PdfInit ==
    /\ pdf_content \in {JoinWith(ls, <<"\n">>) : ls \in SeqsUpTo(PdfLines, MaxPdfLines)}
    /\ pdf_chunk_size \in PdfBudgets
    /\ splitlines = SplitLines(pdf_content)
    /\ line_next = 1
    /\ sections = << >>
    /\ current_section = << >>
    /\ section_next = 1
    /\ pdf_chunks = << >>
    /\ pdf_pc = "lines"
    /\ line_log = << >>
    /\ chunk_section = << >>
    /\ InvIdle
    /\ EmbedIdle
    /\ PackIdle
    /\ BackendIdle
    /\ DatasetIdle
    /\ CodeIdle

PdfNext ==
    \/ PdfNewSection \/ PdfAppendLine \/ PdfLinesDone
    \/ PdfTableSection \/ PdfNarrativeSection \/ PdfReturn

SpecPdf == PdfInit /\ [][PdfNext]_vars

\* ------------------------------------------------------------------ claims
BothGiven == arg_k # None /\ arg_n # None

\* The three argument patterns of the doubling rule, for a positive x.
DoublingArgs(x) ==
    \/ arg_k = Some(x) /\ arg_n = None
    \/ arg_k = None /\ arg_n = Some(x)
    \/ arg_k = Some(x) /\ arg_n = Some(x)

Derived == inv_pc \notin {"idle", "derive"}

Searched == inv_pc \in {"rerank", "returned"} \/ inv_error = "IndexError"

\* C1: when only top_k = x, only top_n = x, or both equal to x are given (x a
\* positive integer), invoke of either orchestrator calls every backend search
\* with breadth 2x and the reranker with final count x.
C1_DoubledBreadth ==
    \A x \in 1 .. MaxArg :
        (DoublingArgs(x) /\ Derived) =>
            /\ inv_error # "TypeError"
            /\ top_k = 2 * x
            /\ top_n = x
            /\ \A j \in 1 .. Len(searchCalls) : searchCalls[j].top_k = 2 * x
            /\ \A j \in 1 .. Len(rerankInvokes) : rerankInvokes[j].top_n = x
            /\ Searched => Len(searchCalls) = IF variant = "single" THEN 1 ELSE 2
            /\ inv_pc \in {"returned", "raised"} => Len(rerankInvokes) = 1

\* C1's case: a hybrid call with top_k = top_n = 2 that ran to its return.
C1_Witness ==
    /\ variant = "hybrid"
    /\ arg_k = Some(2)
    /\ arg_n = Some(2)
    /\ inv_pc = "returned"
    /\ Len(searchCalls) = 2
    /\ Len(rerankCalls) = 1

\* C2: when neither top_k nor top_n is given, invoke searches with breadth 10
\* and calls the reranker with final count 5.
C2_NeitherGivenDefaults ==
    (arg_k = None /\ arg_n = None /\ Derived) =>
        /\ inv_error # "TypeError"
        /\ top_k = 10
        /\ top_n = 5
        /\ \A j \in 1 .. Len(searchCalls) : searchCalls[j].top_k = 10
        /\ \A j \in 1 .. Len(rerankInvokes) : rerankInvokes[j].top_n = 5

\* C3: when both are given and top_k < top_n, invoke is rejected with an error
\* and makes no backend search and no rerank call.
C3_BreadthBelowFinalRejected ==
    (BothGiven /\ Derived /\ arg_k[1] < arg_n[1]) =>
        /\ inv_pc = "raised"
        /\ searchCalls = << >>
        /\ rerankInvokes = << >>

\* C4: after an embedding call that fails with a rate-limit signal, the next
\* embedding call batch_embed issues is for the same batch, and batch_embed
\* does not end before it has issued that call.
C4_RateLimitRetriesSameBatch ==
    \A j \in 1 .. Len(embedCalls) :
        embedCalls[j].outcome = "rate limit exceeded" =>
            IF j < Len(embedCalls)
            THEN /\ embedCalls[j + 1].start = embedCalls[j].start
                 /\ embedCalls[j + 1].inputs = embedCalls[j].inputs
            ELSE be_pc = "loop"

\* C5: batch_embed returns exactly one embedding per input text, in input
\* order: row j is the embedding of docs[j].
C5_OneRowPerTextInOrder ==
    be_pc = "returned" => stacked = EmbedBatch(docs)

\* C6: a rate-limit signal on the call issued right after a rate-limited call
\* (the retry) is fatal: batch_embed ends with an error at that call and
\* returns no result.
C6_SecondRateLimitFatal ==
    \A j \in 1 .. Len(embedCalls) - 1 :
        (/\ embedCalls[j].outcome = "rate limit exceeded"
         /\ embedCalls[j + 1].outcome = "rate limit exceeded"
         /\ be_pc # "loop") =>
            /\ be_pc = "raised"
            /\ Len(embedCalls) = j + 1

\* C7: an embedding failure that is not a rate-limit signal ends batch_embed
\* at once: it is the last embedding call, no sleep follows it, the error
\* reaches the caller and nothing is returned.
C7_OtherFailureImmediate ==
    \A j \in 1 .. Len(embedCalls) :
        embedCalls[j].outcome = "upstream failure" =>
            /\ j = Len(embedCalls)
            /\ be_pc = "raised"
            /\ be_error = "upstream failure"
            /\ stacked = << >>
            /\ Len(sleeps) = j - 1

\* C7's case: the third call fails after a successful and a rate-limited one.
C7_Witness ==
    /\ Len(embedCalls) = 3
    /\ embedCalls[1].outcome = "ok"
    /\ embedCalls[2].outcome = "rate limit exceeded"
    /\ embedCalls[3].outcome = "upstream failure"
    /\ all_embeddings # << >>
    /\ be_pc = "raised"

ChunkIdsOf(list) == {list[j].chunk_id : j \in 1 .. Len(list)}

Records(list) == {list[j] : j \in 1 .. Len(list)}

Fused == variant = "hybrid" /\ Searched

\* C8: the candidate list the hybrid invoke hands to the reranker holds exactly
\* one record per chunk_id of the sparse or the dense results, and for a
\* chunk_id of both the record is the dense backend's.
C8_FusedOncePerChunkDenseWins ==
    Fused =>
        /\ ChunkIdsOf(deduped_retrievals) =
               ChunkIdsOf(sparse_retrievals) \cup ChunkIdsOf(dense_retrievals)
        /\ \A a, b \in 1 .. Len(deduped_retrievals) :
               a # b => deduped_retrievals[a].chunk_id # deduped_retrievals[b].chunk_id
        /\ \A j \in 1 .. Len(deduped_retrievals) :
               IF deduped_retrievals[j].chunk_id \in ChunkIdsOf(dense_retrievals)
               THEN deduped_retrievals[j] \in Records(dense_retrievals)
               ELSE deduped_retrievals[j] \in Records(sparse_retrievals)
        /\ \A j \in 1 .. Len(rerankInvokes) :
               rerankInvokes[j].documents = deduped_retrievals

\* C8's case: a chunk_id in both lists, another in the sparse list alone, and
\* the reranker called with the fused list.
C8_Witness ==
    /\ Fused
    /\ ChunkIdsOf(sparse_retrievals) \cap ChunkIdsOf(dense_retrievals) # {}
    /\ ChunkIdsOf(sparse_retrievals) \ ChunkIdsOf(dense_retrievals) # {}
    /\ Len(rerankCalls) = 1

\* C9: a search on an instance on which no fit or load has completed makes no
\* call to the embedding provider or the vector store, and ends with an error.
C9_UnfittedSearchRejectedFirst ==
    (se_op = "search" /\ search_unfitted) =>
        /\ Len(embedCalls) = search_base[1]
        /\ Len(storeCalls) = search_base[2]
        /\ se_pc = "ready" => se_outcome \in {"AssertionError", "AttributeError"}

AllSentenceText == Join([j \in 1 .. Len(sentences) |-> Join(sentences[j])])

SeenSentenceText == Join([j \in 1 .. sent_next - 1 |-> Join(sentences[j])])

\* C10: the chunks of chunk_simple, concatenated in output order, are the
\* tokens of the sentences, each once and in the original order; while the
\* loop runs, the chunks and the running chunk hold the sentences taken so far.
C10_ChunksReproduceSentences ==
    /\ cs_pc = "loop" => Join(chunks) \o Join(current_chunk) = SeenSentenceText
    /\ cs_pc = "returned" => Join(chunks) = AllSentenceText

\* C10's case: three sentences, one of them alone over the budget, packed into
\* at least two chunks.
C10_Witness ==
    /\ cs_pc = "returned"
    /\ Len(sentences) = 3
    /\ Len(chunks) >= 2
    /\ \E j \in 1 .. Len(sentences) : Len(sentences[j]) > chunk_size

RECURSIVE TokenCount(_)
\* The token count of the sentences at the given positions.
TokenCount(positions) ==
    IF positions = << >> THEN 0
    ELSE Len(sentences[Head(positions)]) + TokenCount(Tail(positions))

TextOfSents(positions) == Join([j \in 1 .. Len(positions) |-> Join(sentences[positions[j]])])

ChunkWithinBudgetOrOneSentence(c) ==
    /\ chunks[c] = TextOfSents(chunk_sents[c])
    /\ \/ TokenCount(chunk_sents[c]) <= chunk_size
       \/ /\ Len(chunk_sents[c]) = 1
          /\ Len(sentences[chunk_sents[c][1]]) > chunk_size

FlushedExactlyOnOverflow ==
    (cs_pc = "loop" /\ sent_next <= Len(sentences) /\ sent_next' = sent_next + 1) =>
        (Len(chunks') = Len(chunks) + 1 <=>
            /\ TokenCount(current_sents) + Len(sentences[sent_next]) > chunk_size
            /\ current_sents # << >>)

\* C11: every chunk chunk_simple emits has a token count within the budget or
\* is exactly one sentence whose own token count exceeds the budget; the loop
\* closes the running chunk exactly when the next sentence would take it over
\* the budget and the running chunk is non-empty.
C11_ChunkWithinBudgetFlushOnOverflow ==
    /\ [](\A c \in 1 .. Len(chunks) : ChunkWithinBudgetOrOneSentence(c))
    /\ [][FlushedExactlyOnOverflow]_vars

\* C11's case: a run that closed a chunk in the loop and emitted a sentence
\* alone over the budget as a chunk of its own.
C11_Witness ==
    /\ cs_pc = "returned"
    /\ Len(chunks) = 3
    /\ \E c \in 1 .. Len(chunks) : TokenCount(chunk_sents[c]) > chunk_size

\* C12: in the chunk stream of chunk_dataset the chunk_number values of the
\* chunks sharing a doc_id start at 0 and strictly increase in emission order,
\* also when two documents have identical content.
C12_ChunkNumbersIncreasePerDocId ==
    \A b \in 1 .. Len(all_chunks) :
        /\ (\A a \in 1 .. b - 1 : all_chunks[a].doc_id # all_chunks[b].doc_id)
               => all_chunks[b].chunk_number = 0
        /\ \A a \in 1 .. b - 1 :
               all_chunks[a].doc_id = all_chunks[b].doc_id
                   => all_chunks[a].chunk_number < all_chunks[b].chunk_number

\* The (doc_id, chunk_id, chunk_number) of the chunks chunk_dataset builds from
\* the list chunk_source_code returned for the content.
Triples(content, list) ==
    [j \in 1 .. Len(list) |->
        [doc_id |-> make_id(content), chunk_id |-> make_id(list[j]), chunk_number |-> j - 1]]

\* C13: chunking the same source-code content twice, in the same or in
\* another process, yields the same sequence of (doc_id, chunk_id,
\* chunk_number): the result does not depend on the iteration order of the
\* identifier and import sets.
C13_RechunkingSameTriples ==
    (first_strs # None /\ sc_pc = "returned") =>
        Triples(tree, chunks_strs) = Triples(tree, first_strs[1])

\* The module's one definition: the child after the prelude.
TopDefinition == tree[Len(tree)]

ClassWithInitAndTwoMethods ==
    /\ sc_pc = "returned"
    /\ TopDefinition.type = "class_definition"
    /\ Len(InitMethods(TopDefinition)) = 1
    /\ Len(OtherMethods(TopDefinition)) = 2

ClassThenTwoMethodChunks ==
    /\ Len(code_chunks) = 3
    /\ code_chunks[1].type = "class"
    /\ code_chunks[1].name = TopDefinition.name
    /\ \A j \in 2 .. 3 :
           /\ code_chunks[j].type = "method"
           /\ code_chunks[j].name = MethodNameOf(OtherMethods(TopDefinition)[j - 1])
           /\ code_chunks[j].context.parent_class = Some(TopDefinition.name)

\* C16 as stated: a module with one top-level class holding __init__ and two
\* other methods yields exactly 3 chunks, a class chunk and then two method
\* chunks whose parent_class is the class name.
C16_ClassYieldsThreeChunks == ClassWithInitAndTwoMethods => ClassThenTwoMethodChunks

NoMethodNests ==
    \A j \in 1 .. Len(OtherMethods(TopDefinition)) :
        OtherMethods(TopDefinition)[j].type = "function_definition"
            => OtherMethods(TopDefinition)[j].body = << >>

\* C16 amended: when neither of the two methods has a definition nested in
\* its body, process_root yields exactly 3 chunks, a class chunk and then two
\* method chunks whose parent_class is the class name, and with a budget the
\* three strings fit chunk_source_code returns 3 strings.
C16_ClassYieldsThreeChunksUnlessNested ==
    (ClassWithInitAndTwoMethods /\ NoMethodNests) =>
        /\ ClassThenTwoMethodChunks
        /\ cc_chunk_size = 300 => Len(chunks_strs) = 3

\* C16's case: a class with attributes, a decorated __init__, a plain and a
\* decorated method, chunked for the second time.
C16_Witness ==
    /\ ClassWithInitAndTwoMethods
    /\ NoMethodNests
    /\ first_strs # None
    /\ TopDefinition.uses # {}
    /\ InitMethods(TopDefinition)[1].type = "decorated_definition"
    /\ OtherMethods(TopDefinition)[1].type = "function_definition"
    /\ OtherMethods(TopDefinition)[2].type = "decorated_definition"
    /\ Len(chunks_strs) > 3

\* C18: a decorated definition directly in the body of a function is emitted
\* as a chunk whose context.parent_function is the enclosing function's name.
C18_DecoratedNestedHasParentFunction ==
    (sc_pc = "returned" /\ TopDefinition.type = "function_definition") =>
        \A j \in 1 .. Len(TopDefinition.body) :
            TopDefinition.body[j].type = "decorated_definition" =>
                \E c \in 1 .. Len(code_chunks) :
                    /\ code_chunks[c].name = TopDefinition.body[j].inner.name
                    /\ code_chunks[c].context.parent_function = Some(TopDefinition.name)

\* What C19 compares: the type, the name and the parents of each chunk.
Handling(list) ==
    [j \in 1 .. Len(list) |->
        [type |-> list[j].type,
         name |-> list[j].name,
         parent_class |-> list[j].context.parent_class,
         parent_function |-> list[j].context.parent_function]]

\* C19: a decorated top-level class or function yields the chunks the
\* undecorated one yields, identifier sets apart: the class chunk and one
\* method chunk per other method with parent_class set, or the function chunk
\* and the chunks of its nested definitions.
C19_DecoratedHandledAsUndecorated ==
    (sc_pc = "returned" /\ TopDefinition.type = "decorated_definition") =>
        Handling(code_chunks) =
            Handling(IF TopDefinition.inner.type = "class_definition"
                     THEN process_class(TopDefinition.inner, EmptyContext)
                     ELSE process_function(TopDefinition.inner, EmptyContext))

\* C17: SearchDocumentation.run with num_results = r makes invoke ask the
\* reranker for final count r and search the backend with breadth 2r.
C17_ToolGetsDeclaredCount ==
    (num_results # None /\ Derived) =>
        /\ inv_error = ""
        /\ top_n = num_results[1]
        /\ top_k = 2 * num_results[1]
        /\ \A j \in 1 .. Len(searchCalls) : searchCalls[j].top_k = 2 * num_results[1]
        /\ \A j \in 1 .. Len(rerankInvokes) : rerankInvokes[j].top_n = num_results[1]

ContainsLine(section, line) ==
    \E j \in 1 .. Len(SplitLines(section)) : SplitLines(section)[j] = line

ChunksOfSection(k) == {j \in 1 .. Len(pdf_chunks) : chunk_section[j] = k}

\* C14: a section of chunk_pdf that contains the currency-amount line
\* `Revenue $ 1,234` is emitted as exactly one chunk, the whole section,
\* whatever the budget and the section's length.
C14_TableSectionIsOneChunk ==
    \A k \in 1 .. Len(sections) :
        (ContainsLine(sections[k], RevenueLine) /\ (pdf_pc = "returned" \/ section_next > k)) =>
            /\ Cardinality(ChunksOfSection(k)) = 1
            /\ \A j \in ChunksOfSection(k) : pdf_chunks[j] = sections[k]

\* C14's case: a section of three lines with the currency line, over the
\* budget of 2 tokens, chunked to the end.
C14_Witness ==
    /\ pdf_pc = "returned"
    /\ pdf_chunk_size = 2
    /\ \E k \in 1 .. Len(sections) :
           /\ ContainsLine(sections[k], RevenueLine)
           /\ Len(SplitLines(sections[k])) = 3
           /\ ChunksOfSection(k) # {}

\* C20: with a section open, every line whose stripped text begins with one
\* of the five section markers closes the open section and starts a new one
\* with that line.
C20_EveryMarkerStartsSection ==
    \A j \in 1 .. Len(line_log) :
        (/\ line_log[j].was_open
         /\ \E k \in 1 .. Len(section_markers) :
                StartsWith(Strip(line_log[j].line), section_markers[k])) =>
            /\ line_log[j].started
            /\ j = Len(line_log) /\ pdf_pc = "lines" => current_section = <<line_log[j].line>>

\* C15: for every backend variant, the list a search returns has scores that
\* are non-increasing from the first result to the last, and holds at most
\* top_k results.
C15_ScoresNonIncreasingAtMostTopK ==
    (se_op = "search" /\ se_pc = "ready" /\ se_outcome = "returned") =>
        /\ Len(se_result) <= se_top_k
        /\ \A a, b \in 1 .. Len(se_result) :
              a < b => se_result[a].score >= se_result[b].score

\* A TF-IDF search over more chunks than top_k returned two results, the
\* first with the higher score.
C15_Witness ==
    /\ engine = "tfidf"
    /\ se_op = "search" /\ se_pc = "ready" /\ se_outcome = "returned"
    /\ Len(self_data[1]) > se_top_k
    /\ Len(se_result) = 2
    /\ se_result[1].score > se_result[2].score

NoBlanks(str) == SelectSeq(str, LAMBDA ch : ch # " ")

\* The chunks chunk_pdf emitted for section k, in order.
SectionChunks(k) ==
    LET own == ChunksOfSection(k)
        first == CHOOSE j \in own : \A h \in own : j <= h
    IN  [j \in 1 .. Cardinality(own) |-> pdf_chunks[first + j - 1]]

\* The sentences of section k as chunk_simple takes them: each one the list
\* of its tokens.
SectionSentenceTokens(k) ==
    LET sents == PdfSentences(sections[k])
    IN  [j \in 1 .. Len(sents) |-> PdfTokens(sents[j])]

Narrative(k) ==
    /\ ~has_table(sections[k])
    /\ pdf_pc = "returned" \/ section_next > k

\* C21: the inline loop of chunk_pdf groups the sentences of a narrative
\* section into the same chunks, in the same order, as chunk_simple groups
\* them under the same budget (the chunk texts compared without the blanks
\* that only chunk_pdf puts between sentences).
C21_PdfPacksAsChunkSimple ==
    \A k \in 1 .. Len(sections) :
        Narrative(k) =>
            [j \in 1 .. Len(SectionChunks(k)) |-> NoBlanks(SectionChunks(k)[j])]
                = chunk_simple(SectionSentenceTokens(k), pdf_chunk_size)

\* C21's case: a narrative section of three sentences packed under a budget
\* of four tokens into a chunk of two sentences and a chunk of one.
C21_Witness ==
    /\ pdf_pc = "returned"
    /\ pdf_chunk_size = 4
    /\ \E k \in 1 .. Len(sections) :
           /\ Narrative(k)
           /\ Len(PdfSentences(sections[k])) = 3
           /\ Len(SectionChunks(k)) = 2

BothGivenAndDiffer ==
    /\ arg_k # None /\ arg_n # None
    /\ arg_k[1] > 0 /\ arg_n[1] > 0
    /\ arg_k[1] # arg_n[1]

CeilDiv(n, b) == (n + b - 1) \div b

RerankedNothing ==
    /\ rerankInvokes # << >>
    /\ rerankInvokes[1].documents = << >>

\* C24: when the backend search, or both searches of the hybrid variant,
\* return an empty list, Reranker.invoke raises before it calls the rerank
\* collaborator, and invoke ends with that error instead of returning an
\* empty list.
C24_NoCandidatesRaises ==
    /\ (inv_pc \in {"returned", "raised"} /\ inv_error # "TypeError" /\ Candidates = << >>) =>
            RerankedNothing
    /\ RerankedNothing =>
            /\ inv_pc = "raised"
            /\ inv_error = "IndexError"
            /\ rerankCalls = << >>
            /\ reranked = << >>

\* C24's case: both searches of the hybrid variant came back empty and the
\* invoke ended with the reranker's error.
C24_Witness ==
    /\ variant = "hybrid"
    /\ Len(searchCalls) = 2
    /\ sparse_retrievals = << >> /\ dense_retrievals = << >>
    /\ RerankedNothing
    /\ inv_pc = "raised"

====
